---- MODULE Spec2Model ----
(***************************************************************************)
(* ChatKitPanel (components/ChatKitPanel.tsx): the panel's UI state        *)
(* machine -- script readiness, session bootstrap (getClientSecret), the   *)
(* error record and its display precedence, and the client-tool callbacks. *)
(*                                                                         *)
(* Conventions.  A nullable string (string | null) is None = <<>> or       *)
(* Some(s) = <<s>>.  A JSON value is a tagged record (JStr, JObj, ...).    *)
(* The variable "last" is a history variable: the operation that produced  *)
(* the current state, its input and what it returned or called back.       *)
(***************************************************************************)
EXTENDS Naturals, Sequences, FiniteSets, TLC

VARIABLES
    WORKFLOW_ID,            \* lib/config WORKFLOW_ID (fixed for a run)
    phase,                  \* "rendered" (constructed), "mounted", "unmounted"
    isMountedRef,           \* isMountedRef.current
    registered,             \* window.customElements.get("openai-chatkit") is defined
    scriptStatus,           \* "pending" | "ready" | "error"
    effectScriptStatus,     \* the scriptStatus the script effect last ran for ("none": not yet)
    timeoutId,              \* TRUE while the 5 s timer is armed
    loadSignalSeen,         \* history: a chatkit-script-loaded event was handled
    errors,                 \* ErrorState
    isInitializingSession,  \* the loading flag
    widgetInstanceKey,      \* key of the ChatKit subtree
    processedFacts,         \* processedFacts.current
    thread,                 \* history: number of thread-change signals so far
    relayLog,               \* history: the onWidgetAction calls made, in order
    invocations,            \* history: getClientSecret invocations so far
    inFlight,               \* pending getClientSecret calls, counted per currentSecret
                            \* and (history) the widget instance key they started under
    fetchCount,             \* history: POSTs issued to the session endpoint
    last                    \* history: the last operation, its input and result

vars == <<WORKFLOW_ID, phase, isMountedRef, registered, scriptStatus,
          effectScriptStatus, timeoutId, loadSignalSeen, errors,
          isInitializingSession, widgetInstanceKey, processedFacts, thread,
          relayLog, invocations, inFlight, fetchCount, last>>

panelVars == <<WORKFLOW_ID, phase, isMountedRef, registered, scriptStatus,
               effectScriptStatus, timeoutId, loadSignalSeen, errors,
               isInitializingSession, widgetInstanceKey, invocations, inFlight,
               fetchCount>>

factVars == <<processedFacts, thread, relayLog>>

(***************************************************************************)
(* Bounds of the model.                                                    *)
(***************************************************************************)
MaxCalls == 2           \* getClientSecret invocations in one run
MaxThreadChanges == 1   \* thread-change signals in one run
MaxRelays == 4          \* onWidgetAction relays recorded in one run
MaxResets == 1          \* handleResetChat runs in one run

(***************************************************************************)
(* Nullable strings.                                                       *)
(***************************************************************************)
None == <<>>
Some(s) == <<s>>
\* a ?? b
Coalesce(a, b) == IF a = None THEN b ELSE a
\* Boolean(x) for x : string | null
Truthy(o) == o # None /\ o[1] # ""

(***************************************************************************)
(* JSON values.                                                            *)
(***************************************************************************)
JUndef == [t |-> "undefined"]
JNull == [t |-> "null"]
JStr(s) == [t |-> "string", v |-> s]
JNum(n) == [t |-> "number", v |-> n]
JObj(fields) == [t |-> "object", f |-> fields]
EmptyFields == [k \in {} |-> JUndef]
\* j.k (undefined when j is not an object or has no such property)
Get(j, k) == IF j.t = "object" /\ k \in DOMAIN j.f THEN j.f[k] ELSE JUndef
\* "k" in j, for an object j
HasKey(j, k) == j.t = "object" /\ k \in DOMAIN j.f
\* !j
Falsy(j) ==
    \/ j.t \in {"undefined", "null"}
    \/ (j.t = "string" /\ j.v = "")
    \/ (j.t = "number" /\ j.v = 0)

(***************************************************************************)
(* Fixed texts of the program.                                             *)
(***************************************************************************)
ConfigMessage == "Set NEXT_PUBLIC_CHATKIT_WORKFLOW_ID in your .env.local file."
MissingSecretMessage == "Missing client secret in response"
UnableMessage == "Unable to start ChatKit session."
TimeoutDetail ==
    "ChatKit web component is unavailable. Verify that the script URL is reachable."
UnknownErrorDetail == "unknown error"
PlaceholderPrefix == "wf_replace"

(***************************************************************************)
(* Inputs: configuration, responses of the session endpoint, events.       *)
(***************************************************************************)
WorkflowIds == {"", "wf_replace", "wf_replace_me", "wf_68e", "abc"}

\* Parsed bodies the endpoint may send (as JSON text).
Bodies ==
    { JObj(EmptyFields),
      JNull,
      JObj([client_secret |-> JStr("sk_abc")]),
      JObj([client_secret |-> JStr("")]),
      JObj([client_secret |-> JStr("sk_abc"), error |-> JStr("ignored")]),
      JObj([error |-> JStr("top level")]),
      JObj([error |-> JStr("")]),
      JObj([error |-> JObj([message |-> JStr("quota exceeded")])]),
      JObj([error |-> JObj([message |-> JStr("quota exceeded")]),
            details |-> JObj([error |-> JStr("bad workflow")])]),
      JObj([error |-> JObj([code |-> JNum(1)]),
            details |-> JObj([error |-> JStr("bad workflow")])]),
      JObj([details |-> JStr("details text")]),
      JObj([details |-> JObj([error |-> JStr("bad workflow")])]),
      JObj([details |-> JObj([error |-> JObj([message |-> JStr("nested")])])]),
      JObj([details |-> JObj([error |-> JStr("bad workflow")]),
            message |-> JStr("payload message")]),
      JObj([message |-> JStr("payload message")]),
      JObj([error |-> JStr("top level"), details |-> JStr("details text"),
            message |-> JStr("payload message")]),
      JObj([details |-> JStr("details text"), message |-> JStr("payload message")]),
      JObj([details |-> JObj([error |-> JObj([message |-> JStr("nested")])]),
            message |-> JStr("payload message")]),
      JStr("oops") }

\* response.text(): empty, not JSON, or the text of a JSON value.
RawBodies ==
    {[kind |-> "empty"], [kind |-> "malformed"]}
        \cup {[kind |-> "json", value |-> b] : b \in Bodies}

StatusTexts == {"", "Bad Request"}

\* What the fetch of the session endpoint ends with: a response, or a rejection
\* (an Error, or some other thrown value).
Responses ==
    {[kind |-> "http", ok |-> TRUE, statusText |-> "OK", raw |-> b] : b \in RawBodies}
        \cup {[kind |-> "http", ok |-> FALSE, statusText |-> st, raw |-> b] :
                st \in StatusTexts, b \in RawBodies}
        \cup {[kind |-> "throw", isError |-> TRUE, message |-> "Failed to fetch"],
              [kind |-> "throw", isError |-> FALSE, message |-> ""]}

\* One response per way getClientSecret can end: a credential, a body without
\* one, a failure with a message, a failure with an empty message, a rejection.
CoreResponses ==
    {[kind |-> "http", ok |-> TRUE, statusText |-> "OK",
      raw |-> [kind |-> "json", value |-> JObj([client_secret |-> JStr("sk_abc")])]],
     [kind |-> "http", ok |-> TRUE, statusText |-> "OK",
      raw |-> [kind |-> "json", value |-> JObj(EmptyFields)]],
     [kind |-> "http", ok |-> FALSE, statusText |-> "Bad Request",
      raw |-> [kind |-> "json",
               value |-> JObj([error |-> JObj([message |-> JStr("quota exceeded")])])]],
     [kind |-> "http", ok |-> FALSE, statusText |-> "", raw |-> [kind |-> "empty"]],
     [kind |-> "throw", isError |-> TRUE, message |-> "Failed to fetch"]}

\* currentSecret passed by the widget: null on the first call, a string on refresh.
CurrentSecrets == {None, Some("sk_old")}

\* The widget instance keys of a run.
WidgetKeys == 0..MaxResets

\* detail of a chatkit-script-error event (undefined for a plain Event).
EventDetails == {None, Some("load failed")}

(***************************************************************************)
(* Pure functions of the panel.                                            *)
(***************************************************************************)
\* String.prototype.startsWith
StartsWith(s, prefix) ==
    Len(s) >= Len(prefix) /\ SubSeq(s, 1, Len(prefix)) = prefix

createInitialErrors ==
    [script |-> None, session |-> None, integration |-> None, retryable |-> FALSE]

\* setErrors((current) => ({ ...current, ...updates }))
setErrorState(current, updates) ==
    [k \in DOMAIN current |-> IF k \in DOMAIN updates THEN updates[k] ELSE current[k]]

\* Variant: the placeholder prefix is not checked.
isWorkflowConfiguredNonEmpty(id) == id # ""

\* Variant: an identifier must also start with wf_.
isWorkflowConfiguredPrefixed(id) ==
    id # "" /\ StartsWith(id, "wf_") /\ ~StartsWith(id, PlaceholderPrefix)

isWorkflowConfiguredFor(id) == id # "" /\ ~StartsWith(id, PlaceholderPrefix)

isWorkflowConfigured == isWorkflowConfiguredFor(WORKFLOW_ID)

\* let data = {}; if (raw) { try { data = JSON.parse(raw) } catch { log } }
ParseBody(raw) ==
    IF raw.kind = "json" THEN raw.value ELSE JObj(EmptyFields)

IsString(j) == j.t = "string"

\* x && typeof x === "object" && "message" in x && typeof x.message === "string"
HasStringMessage(j) == HasKey(j, "message") /\ IsString(Get(j, "message"))

\* Variant: the details shapes are tried before the error shapes.
extractErrorDetailDetailsFirst(payload, fallback) ==
    IF Falsy(payload) THEN fallback
    ELSE LET error == Get(payload, "error")
             details == Get(payload, "details")
             nestedError == Get(details, "error")
         IN  IF IsString(details) THEN details.v
             ELSE IF HasKey(details, "error") /\ IsString(nestedError)
                  THEN nestedError.v
             ELSE IF HasKey(details, "error") /\ HasStringMessage(nestedError)
                  THEN Get(nestedError, "message").v
             ELSE IF IsString(error) THEN error.v
             ELSE IF HasStringMessage(error) THEN Get(error, "message").v
             ELSE IF IsString(Get(payload, "message")) THEN Get(payload, "message").v
             ELSE fallback

\* Variant: payload.message is tried before the details shapes.
extractErrorDetailMessageFirst(payload, fallback) ==
    IF Falsy(payload) THEN fallback
    ELSE LET error == Get(payload, "error")
             details == Get(payload, "details")
             nestedError == Get(details, "error")
         IN  IF IsString(error) THEN error.v
             ELSE IF HasStringMessage(error) THEN Get(error, "message").v
             ELSE IF IsString(Get(payload, "message")) THEN Get(payload, "message").v
             ELSE IF IsString(details) THEN details.v
             ELSE IF HasKey(details, "error") /\ IsString(nestedError)
                  THEN nestedError.v
             ELSE IF HasKey(details, "error") /\ HasStringMessage(nestedError)
                  THEN Get(nestedError, "message").v
             ELSE fallback

extractErrorDetail(payload, fallback) ==
    IF Falsy(payload) THEN fallback
    ELSE LET error == Get(payload, "error")
             details == Get(payload, "details")
             nestedError == Get(details, "error")
         IN  IF IsString(error) THEN error.v
             ELSE IF HasStringMessage(error) THEN Get(error, "message").v
             ELSE IF IsString(details) THEN details.v
             ELSE IF HasKey(details, "error") /\ IsString(nestedError)
                  THEN nestedError.v
             ELSE IF HasKey(details, "error") /\ HasStringMessage(nestedError)
                  THEN Get(nestedError, "message").v
             ELSE IF IsString(Get(payload, "message")) THEN Get(payload, "message").v
             ELSE fallback

Resolved(v) == [kind |-> "resolved", value |-> v]
Rejected(m) == [kind |-> "rejected", message |-> m]

\* Variant: only an absent client_secret counts as missing.
SessionOutcomeUndefinedOnly(r) ==
    IF r.kind = "throw"
    THEN Rejected(IF r.isError THEN r.message ELSE UnableMessage)
    ELSE LET data == ParseBody(r.raw)
             clientSecret == Get(data, "client_secret")
         IN  IF ~r.ok THEN Rejected(extractErrorDetail(data, r.statusText))
             ELSE IF clientSecret = JUndef THEN Rejected(MissingSecretMessage)
             ELSE Resolved(clientSecret)

\* Variant: the credential is looked for before the HTTP status is checked.
SessionOutcomeSecretFirst(r) ==
    IF r.kind = "throw"
    THEN Rejected(IF r.isError THEN r.message ELSE UnableMessage)
    ELSE LET data == ParseBody(r.raw)
             clientSecret == Get(data, "client_secret")
         IN  IF Falsy(clientSecret) THEN Rejected(MissingSecretMessage)
             ELSE IF ~r.ok THEN Rejected(extractErrorDetail(data, r.statusText))
             ELSE Resolved(clientSecret)

\* The try block of getClientSecret once the fetch has settled, and what the
\* catch block rethrows: the value the promise resolves to or the message of
\* the Error it rejects with.
SessionOutcome(r) ==
    IF r.kind = "throw"
    THEN Rejected(IF r.isError THEN r.message ELSE UnableMessage)
    ELSE LET data == ParseBody(r.raw)
             clientSecret == Get(data, "client_secret")
         IN  IF ~r.ok THEN Rejected(extractErrorDetail(data, r.statusText))
             ELSE IF Falsy(clientSecret) THEN Rejected(MissingSecretMessage)
             ELSE Resolved(clientSecret)

\* Rendering: which error the overlay gets, and what the panel shows.
activeError == Coalesce(errors.session, errors.integration)
\* Variant: the session/integration error takes precedence over the script error.
blockingErrorScriptLast == Coalesce(activeError, errors.script)
blockingError == Coalesce(errors.script, activeError)
\* onRetry={blockingError && errors.retryable ? handleResetChat : null}, as a
\* function of the error record: TRUE when the overlay gets handleResetChat.
\* Variant: the retryable flag is not consulted.
onRetryForAnyError(e) ==
    Truthy(Coalesce(e.script, Coalesce(e.session, e.integration)))
onRetryFor(e) ==
    Truthy(Coalesce(e.script, Coalesce(e.session, e.integration))) /\ e.retryable
onRetryOffered == onRetryFor(errors)
statusReady == ~Truthy(blockingError) /\ ~isInitializingSession
\* Variant: the widget is hidden only by a blocking error.
widgetInteractiveWhileLoading == ~Truthy(blockingError)
widgetInteractive == ~(Truthy(blockingError) \/ isInitializingSession)
loadingOverlayShown == isInitializingSession /\ ~Truthy(blockingError)

(***************************************************************************)
(* Initial state: the component has been constructed (useState/useRef      *)
(* initialisers have run), its effects have not.                           *)
(***************************************************************************)
Op(name, arg, ret) == [op |-> name, arg |-> arg, ret |-> ret]

Init ==
    /\ WORKFLOW_ID \in WorkflowIds
    /\ phase = "rendered"
    /\ isMountedRef = TRUE
    /\ registered \in BOOLEAN
    /\ scriptStatus = IF registered THEN "ready" ELSE "pending"
    /\ effectScriptStatus = "none"
    /\ timeoutId = FALSE
    /\ loadSignalSeen = FALSE
    /\ errors = createInitialErrors
    /\ isInitializingSession = TRUE
    /\ widgetInstanceKey = 0
    /\ processedFacts = {}
    /\ thread = 0
    /\ relayLog = <<>>
    /\ invocations = 0
    /\ inFlight = [p \in CurrentSecrets \X WidgetKeys |-> 0]
    /\ fetchCount = 0
    /\ last = Op("construct", None, None)

(***************************************************************************)
(* Script readiness.                                                       *)
(***************************************************************************)
\* handleLoaded: the script status and error record it leaves.
handleLoadedStatus(status) == IF isMountedRef THEN "ready" ELSE status
handleLoadedErrors(e) ==
    IF isMountedRef THEN setErrorState(e, [script |-> None]) ELSE e

\* handleError(event): detail is event.detail ?? "unknown error".
handleErrorStatus(status) == IF isMountedRef THEN "error" ELSE status
\* Variant: handleError clears the session error as well.
handleErrorErrorsSessionCleared(e, detail) ==
    IF isMountedRef
    THEN setErrorState(e, [script |-> Some("Error: " \o Coalesce(detail, Some(UnknownErrorDetail))[1]),
                           session |-> None, retryable |-> FALSE])
    ELSE e
handleErrorErrors(e, detail) ==
    IF isMountedRef
    THEN setErrorState(e, [script |-> Some("Error: " \o Coalesce(detail, Some(UnknownErrorDetail))[1]),
                           retryable |-> FALSE])
    ELSE e
\* Variant: the loading flag is left as it is.
handleErrorInitializingKept(flag) == flag
handleErrorInitializing(flag) == IF isMountedRef THEN FALSE ELSE flag

\* The body of the script effect, run for the rendered scriptStatus: the
\* element is registered -> handleLoaded(); else pending -> arm the timer.
\* Variant: the effect recomputes the status from the registry.
scriptEffectStatusRecomputed(status) ==
    IF registered THEN handleLoadedStatus(status) ELSE "pending"
scriptEffectStatus(status) ==
    IF registered THEN handleLoadedStatus(status) ELSE status
scriptEffectErrors(e) ==
    IF registered THEN handleLoadedErrors(e) ELSE e
\* Variant: the timer is armed whatever the rendered status.
scriptEffectTimerAnyStatus(status) == ~registered
scriptEffectTimer(status) == ~registered /\ status = "pending"

\* The workflow-configuration effect.
configEffectErrors(e) ==
    IF ~isWorkflowConfigured /\ isMountedRef
    THEN setErrorState(e, [session |-> Some(ConfigMessage), retryable |-> FALSE])
    ELSE e
configEffectInitializing(flag) ==
    IF ~isWorkflowConfigured /\ isMountedRef THEN FALSE ELSE flag

\* Mount: the three effects run in order.
Mount ==
    /\ phase = "rendered"
    /\ phase' = "mounted"
    /\ scriptStatus' = scriptEffectStatus(scriptStatus)
    /\ effectScriptStatus' = scriptStatus
    /\ timeoutId' = scriptEffectTimer(scriptStatus)
    /\ errors' = configEffectErrors(scriptEffectErrors(errors))
    /\ isInitializingSession' = configEffectInitializing(isInitializingSession)
    /\ last' = Op("mount", None, None)
    /\ UNCHANGED <<WORKFLOW_ID, isMountedRef, registered, loadSignalSeen,
                   widgetInstanceKey, invocations, inFlight, fetchCount>>
    /\ UNCHANGED factVars

\* Unmount: the effect cleanups run (mounted flag, listeners, timer).
Unmount ==
    /\ phase = "mounted"
    /\ phase' = "unmounted"
    /\ isMountedRef' = FALSE
    /\ timeoutId' = FALSE
    /\ last' = Op("unmount", None, None)
    /\ UNCHANGED <<WORKFLOW_ID, registered, scriptStatus, effectScriptStatus,
                   loadSignalSeen, errors, isInitializingSession,
                   widgetInstanceKey, invocations, inFlight, fetchCount>>
    /\ UNCHANGED factVars

\* The browser defines the custom element (chatkit.js has run).
RegisterElement ==
    /\ ~registered
    /\ registered' = TRUE
    /\ last' = Op("registerElement", None, None)
    /\ UNCHANGED <<WORKFLOW_ID, phase, isMountedRef, scriptStatus,
                   effectScriptStatus, timeoutId, loadSignalSeen, errors,
                   isInitializingSession, widgetInstanceKey, invocations, inFlight, fetchCount>>
    /\ UNCHANGED factVars

\* The script effect re-runs after a render with a changed scriptStatus:
\* cleanup (listeners off, timer cleared), then the effect body again.
RunScriptEffect ==
    /\ phase = "mounted"
    /\ effectScriptStatus # scriptStatus
    /\ scriptStatus' = scriptEffectStatus(scriptStatus)
    /\ effectScriptStatus' = scriptStatus
    /\ timeoutId' = scriptEffectTimer(scriptStatus)
    /\ errors' = scriptEffectErrors(errors)
    /\ last' = Op("scriptEffect", None, None)
    /\ UNCHANGED <<WORKFLOW_ID, phase, isMountedRef, registered, loadSignalSeen,
                   isInitializingSession, widgetInstanceKey, invocations, inFlight, fetchCount>>
    /\ UNCHANGED factVars

\* window event "chatkit-script-loaded" while the listener is registered.
ScriptLoadedEvent ==
    /\ phase = "mounted"
    /\ scriptStatus' = handleLoadedStatus(scriptStatus)
    /\ errors' = handleLoadedErrors(errors)
    /\ loadSignalSeen' = TRUE
    /\ last' = Op("scriptLoaded", None, None)
    /\ UNCHANGED <<WORKFLOW_ID, phase, isMountedRef, registered,
                   effectScriptStatus, timeoutId, isInitializingSession,
                   widgetInstanceKey, invocations, inFlight, fetchCount>>
    /\ UNCHANGED factVars

\* window event "chatkit-script-error" while the listener is registered.
ScriptErrorEvent(detail) ==
    /\ phase = "mounted"
    /\ scriptStatus' = handleErrorStatus(scriptStatus)
    /\ errors' = handleErrorErrors(errors, detail)
    /\ isInitializingSession' = handleErrorInitializing(isInitializingSession)
    /\ last' = Op("scriptError", detail, None)
    /\ UNCHANGED <<WORKFLOW_ID, phase, isMountedRef, registered,
                   effectScriptStatus, timeoutId, loadSignalSeen,
                   widgetInstanceKey, invocations, inFlight, fetchCount>>
    /\ UNCHANGED factVars

\* The 5 s timer fires: handleError with the fixed detail unless the element
\* is registered by now.
TimeoutFires ==
    /\ timeoutId
    /\ timeoutId' = FALSE
    /\ scriptStatus' = IF registered THEN scriptStatus ELSE handleErrorStatus(scriptStatus)
    /\ errors' = IF registered THEN errors
                 ELSE handleErrorErrors(errors, Some(TimeoutDetail))
    /\ isInitializingSession' =
         IF registered THEN isInitializingSession
         ELSE handleErrorInitializing(isInitializingSession)
    /\ last' = Op("timeout", None, None)
    /\ UNCHANGED <<WORKFLOW_ID, phase, isMountedRef, registered,
                   effectScriptStatus, loadSignalSeen, widgetInstanceKey,
                   invocations, inFlight, fetchCount>>
    /\ UNCHANGED factVars

(***************************************************************************)
(* Session bootstrap: getClientSecret(currentSecret).                      *)
(***************************************************************************)
\* Unconfigured workflow: the error is set and the call rejects at once.
unconfiguredErrors(e) ==
    IF isMountedRef
    THEN setErrorState(e, [session |-> Some(ConfigMessage), retryable |-> FALSE])
    ELSE e
unconfiguredInitializing(flag) == IF isMountedRef THEN FALSE ELSE flag

\* Before the fetch.
sessionStartErrors(e) ==
    IF isMountedRef
    THEN setErrorState(e, [session |-> None, integration |-> None, retryable |-> FALSE])
    ELSE e
sessionStartInitializing(flag, currentSecret) ==
    IF isMountedRef /\ ~Truthy(currentSecret) THEN TRUE ELSE flag

\* After the fetch: success path, catch block, finally block.
\* Variant: a successful call leaves the error record alone.
sessionDoneErrorsKeptOnSuccess(e, outcome) ==
    IF ~isMountedRef \/ outcome.kind = "resolved" THEN e
    ELSE setErrorState(e, [session |-> Some(outcome.message), retryable |-> FALSE])

\* Variant: a failed request is marked retryable.
sessionDoneErrorsRetryable(e, outcome) ==
    IF ~isMountedRef THEN e
    ELSE IF outcome.kind = "resolved"
         THEN setErrorState(e, [session |-> None, integration |-> None])
         ELSE setErrorState(e, [session |-> Some(outcome.message), retryable |-> TRUE])

\* Variant: the catch block always stores the fixed text.
sessionDoneErrorsFixedMessage(e, outcome) ==
    IF ~isMountedRef THEN e
    ELSE IF outcome.kind = "resolved"
         THEN setErrorState(e, [session |-> None, integration |-> None])
         ELSE setErrorState(e, [session |-> Some(UnableMessage), retryable |-> FALSE])

sessionDoneErrors(e, outcome) ==
    IF ~isMountedRef THEN e
    ELSE IF outcome.kind = "resolved"
         THEN setErrorState(e, [session |-> None, integration |-> None])
         ELSE setErrorState(e, [session |-> Some(outcome.message), retryable |-> FALSE])
\* Variant: the finally block does not test the mounted flag.
sessionDoneInitializingUnguarded(flag, currentSecret) ==
    IF ~Truthy(currentSecret) THEN FALSE ELSE flag
\* Variant: the finally block clears the loading flag for a refresh too.
sessionDoneInitializingAnySecret(flag, currentSecret) ==
    IF isMountedRef THEN FALSE ELSE flag
sessionDoneInitializing(flag, currentSecret) ==
    IF isMountedRef /\ ~Truthy(currentSecret) THEN FALSE ELSE flag
\* The POSTs issued so far, after the catch and finally blocks: they issue none.
\* Variant: the catch block repeats the request once.
sessionDoneFetchesRetried(count, outcome) ==
    IF outcome.kind = "rejected" THEN count + 1 ELSE count
sessionDoneFetches(count, outcome) == count

\* The widget invokes getClientSecret: up to the await of fetch (or the
\* immediate rejection when the workflow is not configured).
GetClientSecretStart(currentSecret) ==
    /\ phase = "mounted"
    /\ invocations < MaxCalls
    /\ invocations' = invocations + 1
    /\ IF ~isWorkflowConfigured
       THEN /\ errors' = unconfiguredErrors(errors)
            /\ isInitializingSession' = unconfiguredInitializing(isInitializingSession)
            /\ inFlight' = inFlight
            /\ fetchCount' = fetchCount
            /\ last' = Op("getClientSecret", currentSecret, Rejected(ConfigMessage))
       ELSE /\ errors' = sessionStartErrors(errors)
            /\ isInitializingSession' =
                 sessionStartInitializing(isInitializingSession, currentSecret)
            /\ inFlight' = [inFlight EXCEPT ![<<currentSecret, widgetInstanceKey>>] = @ + 1]
            /\ fetchCount' = fetchCount + 1
            /\ last' = Op("getClientSecret", currentSecret, [kind |-> "pending"])
    /\ UNCHANGED <<WORKFLOW_ID, phase, isMountedRef, registered, scriptStatus,
                   effectScriptStatus, timeoutId, loadSignalSeen, widgetInstanceKey>>
    /\ UNCHANGED factVars

\* The fetch of a pending call made with currentSecret under widget key
\* startKey settles with r: the rest of getClientSecret runs.
GetClientSecretDone(currentSecret, startKey, r) ==
    /\ inFlight[<<currentSecret, startKey>>] > 0
    /\ LET outcome == SessionOutcome(r)
       IN  /\ errors' = sessionDoneErrors(errors, outcome)
           /\ isInitializingSession' =
                sessionDoneInitializing(isInitializingSession, currentSecret)
           /\ fetchCount' = sessionDoneFetches(fetchCount, outcome)
           /\ last' = Op("getClientSecretDone",
                         [currentSecret |-> currentSecret, response |-> r],
                         outcome)
    /\ inFlight' = [inFlight EXCEPT ![<<currentSecret, startKey>>] = @ - 1]
    /\ UNCHANGED <<WORKFLOW_ID, phase, isMountedRef, registered, scriptStatus,
                   effectScriptStatus, timeoutId, loadSignalSeen,
                   widgetInstanceKey, invocations>>
    /\ UNCHANGED factVars

(***************************************************************************)
(* Widget callbacks.                                                       *)
(***************************************************************************)
\* Variant: the session error is cleared as well.
onResponseStartErrorsAll(e) ==
    setErrorState(e, [session |-> None, integration |-> None, retryable |-> FALSE])
onResponseStartErrors(e) ==
    setErrorState(e, [integration |-> None, retryable |-> FALSE])

OnResponseStart ==
    /\ phase = "mounted"
    /\ errors' = onResponseStartErrors(errors)
    /\ last' = Op("onResponseStart", None, None)
    /\ UNCHANGED <<WORKFLOW_ID, phase, isMountedRef, registered, scriptStatus,
                   effectScriptStatus, timeoutId, loadSignalSeen,
                   isInitializingSession, widgetInstanceKey, invocations, inFlight, fetchCount>>
    /\ UNCHANGED factVars

\* onError({ error }): logs, and nothing else.
onErrorErrors(e) == e

OnError ==
    /\ phase = "mounted"
    /\ errors' = onErrorErrors(errors)
    /\ last' = Op("onError", None, None)
    /\ UNCHANGED <<WORKFLOW_ID, phase, isMountedRef, registered, scriptStatus,
                   effectScriptStatus, timeoutId, loadSignalSeen,
                   isInitializingSession, widgetInstanceKey, invocations, inFlight, fetchCount>>
    /\ UNCHANGED factVars

\* onResponseEnd: calls the host's onResponseEnd.
OnResponseEnd ==
    /\ phase = "mounted"
    /\ last' = Op("onResponseEnd", None, <<"onResponseEnd">>)
    /\ UNCHANGED panelVars
    /\ UNCHANGED factVars

onThreadChangeFacts(facts) == {}

OnThreadChange ==
    /\ phase = "mounted"
    /\ thread < MaxThreadChanges
    /\ processedFacts' = onThreadChangeFacts(processedFacts)
    /\ thread' = thread + 1
    /\ last' = Op("onThreadChange", None, None)
    /\ UNCHANGED relayLog
    /\ UNCHANGED panelVars

(***************************************************************************)
(* Client tools: onClientTool(invocation).                                 *)
(***************************************************************************)
\* String(x ?? "") for the parameter values the model sends.
StringOf(j) == IF j.t = "string" THEN j.v ELSE ""

IsWhitespace(c) == c \in {" ", "\t", "\n"}

RECURSIVE DropLeadingWhitespace(_)
DropLeadingWhitespace(s) ==
    IF s # "" /\ IsWhitespace(SubSeq(s, 1, 1))
    THEN DropLeadingWhitespace(SubSeq(s, 2, Len(s)))
    ELSE s

RECURSIVE DropTrailingWhitespace(_)
DropTrailingWhitespace(s) ==
    IF s # "" /\ IsWhitespace(SubSeq(s, Len(s), Len(s)))
    THEN DropTrailingWhitespace(SubSeq(s, 1, Len(s) - 1))
    ELSE s

\* text.replace(/\s+/g, " ")
RECURSIVE CollapseWhitespace(_)
CollapseWhitespace(s) ==
    IF s = "" THEN ""
    ELSE IF IsWhitespace(SubSeq(s, 1, 1))
         THEN " " \o CollapseWhitespace(DropLeadingWhitespace(s))
         ELSE SubSeq(s, 1, 1) \o CollapseWhitespace(SubSeq(s, 2, Len(s)))

\* text.replace(/\s+/g, " ").trim()
NormalizeText(s) == DropTrailingWhitespace(DropLeadingWhitespace(CollapseWhitespace(s)))

ToolInvocations ==
    {[name |-> "switch_theme", params |-> JObj([theme |-> JStr(t)])] :
        t \in {"light", "dark", "blue"}}
    \cup {[name |-> "switch_theme", params |-> JObj(EmptyFields)]}
    \cup {[name |-> "record_fact",
           params |-> JObj([fact_id |-> JStr(id), fact_text |-> JStr(" a \t b ")])] :
            id \in {"", "f1", "f2"}}
    \cup {[name |-> "record_fact", params |-> JObj([fact_text |-> JStr("x")])],
          [name |-> "record_fact", params |-> JObj([fact_id |-> JStr("f1")])],
          [name |-> "unknown_tool", params |-> JObj(EmptyFields)]}

ToolResult(success, callbacks, facts) ==
    [success |-> success, callbacks |-> callbacks, facts |-> facts]

\* Variant: any string is accepted as a theme.
switchThemeAnyString(params, facts) ==
    LET requested == Get(params, "theme")
    IN  IF IsString(requested)
        THEN ToolResult(TRUE, <<[fn |-> "onThemeRequest", arg |-> requested.v]>>, facts)
        ELSE ToolResult(FALSE, <<>>, facts)

switchTheme(params, facts) ==
    LET requested == Get(params, "theme")
    IN  IF requested = JStr("light") \/ requested = JStr("dark")
        THEN ToolResult(TRUE, <<[fn |-> "onThemeRequest", arg |-> requested.v]>>, facts)
        ELSE ToolResult(FALSE, <<>>, facts)

\* Variant: an empty id is handled like any other id.
recordFactEmptyIdKept(params, facts) ==
    LET id == StringOf(Get(params, "fact_id"))
        text == StringOf(Get(params, "fact_text"))
    IN  IF id \in facts
        THEN ToolResult(TRUE, <<>>, facts)
        ELSE ToolResult(TRUE,
                        <<[fn |-> "onWidgetAction",
                           arg |-> [type |-> "save", factId |-> id,
                                    factText |-> NormalizeText(text)]]>>,
                        facts \cup {id})

\* Variant: the processed-fact set is not consulted.
recordFactNoDedup(params, facts) ==
    LET id == StringOf(Get(params, "fact_id"))
        text == StringOf(Get(params, "fact_text"))
    IN  IF id = ""
        THEN ToolResult(TRUE, <<>>, facts)
        ELSE ToolResult(TRUE,
                        <<[fn |-> "onWidgetAction",
                           arg |-> [type |-> "save", factId |-> id,
                                    factText |-> NormalizeText(text)]]>>,
                        facts \cup {id})

recordFact(params, facts) ==
    LET id == StringOf(Get(params, "fact_id"))
        text == StringOf(Get(params, "fact_text"))
    IN  IF id = "" \/ id \in facts
        THEN ToolResult(TRUE, <<>>, facts)
        ELSE ToolResult(TRUE,
                        <<[fn |-> "onWidgetAction",
                           arg |-> [type |-> "save", factId |-> id,
                                    factText |-> NormalizeText(text)]]>>,
                        facts \cup {id})

\* What onClientTool returns, the host callbacks it makes, and the
\* processed-fact set it leaves.
onClientTool(invocation, facts) ==
    IF invocation.name = "switch_theme" THEN switchTheme(invocation.params, facts)
    ELSE IF invocation.name = "record_fact" THEN recordFact(invocation.params, facts)
    ELSE ToolResult(FALSE, <<>>, facts)

\* The onWidgetAction calls among a tool result's callbacks, as log entries.
Relays(callbacks) ==
    SelectSeq(callbacks, LAMBDA c : c.fn = "onWidgetAction")

OnClientTool(invocation) ==
    /\ phase = "mounted"
    /\ Len(relayLog) < MaxRelays
    /\ LET result == onClientTool(invocation, processedFacts)
           relays == Relays(result.callbacks)
       IN  /\ processedFacts' = result.facts
           /\ relayLog' = relayLog \o
                [k \in DOMAIN relays |->
                    [thread |-> thread, factId |-> relays[k].arg.factId,
                     factText |-> relays[k].arg.factText]]
           /\ last' = Op("onClientTool", invocation,
                         [success |-> result.success, callbacks |-> result.callbacks])
    /\ UNCHANGED thread
    /\ UNCHANGED panelVars

(***************************************************************************)
(* handleResetChat.                                                        *)
(***************************************************************************)
\* Variant: the script status is left as it is.
resetScriptStatusKept == scriptStatus
resetScriptStatus == IF registered THEN "ready" ELSE "pending"

HandleResetChat ==
    /\ phase = "mounted"
    /\ widgetInstanceKey < MaxResets
    /\ processedFacts' = {}
    /\ scriptStatus' = resetScriptStatus
    /\ isInitializingSession' = TRUE
    /\ errors' = createInitialErrors
    /\ widgetInstanceKey' = widgetInstanceKey + 1
    /\ last' = Op("handleResetChat", None, None)
    /\ UNCHANGED <<WORKFLOW_ID, phase, isMountedRef, registered,
                   effectScriptStatus, timeoutId, loadSignalSeen, invocations,
                   inFlight, fetchCount, thread, relayLog>>

(***************************************************************************)
(* Specifications.                                                         *)
(***************************************************************************)
\* The panel's lifecycle, script readiness and session bootstrap.
PanelNext ==
    \/ Mount
    \/ Unmount
    \/ RegisterElement
    \/ RunScriptEffect
    \/ ScriptLoadedEvent
    \/ \E detail \in EventDetails : ScriptErrorEvent(detail)
    \/ TimeoutFires
    \/ \E currentSecret \in CurrentSecrets : GetClientSecretStart(currentSecret)
    \/ \E currentSecret \in CurrentSecrets, startKey \in WidgetKeys, r \in CoreResponses :
          GetClientSecretDone(currentSecret, startKey, r)
    \/ OnResponseStart
    \/ OnResponseEnd
    \/ OnError

\* The client-tool surface of a mounted panel.
ToolNext ==
    \/ Mount
    \/ \E invocation \in ToolInvocations : OnClientTool(invocation)
    \/ OnThreadChange

\* Session bootstrap alone, over every response of the endpoint.
SessionNext ==
    \/ Mount
    \/ Unmount
    \/ \E currentSecret \in CurrentSecrets : GetClientSecretStart(currentSecret)
    \/ \E currentSecret \in CurrentSecrets, startKey \in WidgetKeys, r \in Responses :
          GetClientSecretDone(currentSecret, startKey, r)

\* handleResetChat among what it resets: the script status and error, the
\* configuration error, the loading flag, and the processed-fact set filled
\* by record_fact.
ResetNext ==
    \/ Mount
    \/ RegisterElement
    \/ RunScriptEffect
    \/ \E detail \in EventDetails : ScriptErrorEvent(detail)
    \/ \E invocation \in ToolInvocations : OnClientTool(invocation)
    \/ HandleResetChat

Next == PanelNext

Spec == Init /\ [][Next]_vars

SpecSession == Init /\ [][SessionNext]_vars

SpecTools == Init /\ [][ToolNext]_vars

SpecReset == Init /\ [][PanelNext \/ HandleResetChat]_vars

SpecResetTools == Init /\ [][ResetNext]_vars

SpecAll == Init /\ [][PanelNext \/ ToolNext \/ HandleResetChat]_vars

(***************************************************************************)
(* Properties.                                                             *)
(***************************************************************************)
\* The fact id a record_fact invocation carries ("" when it is another tool).
LastFactId ==
    IF last.op = "onClientTool" /\ last.arg.name = "record_fact"
    THEN StringOf(Get(last.arg.params, "fact_id"))
    ELSE ""

\* How often fact id was relayed to onWidgetAction during thread t.
RelayCount(id, t) ==
    Cardinality({k \in DOMAIN relayLog :
                    relayLog[k].factId = id /\ relayLog[k].thread = t})

\* C1: between two consecutive thread-change signals a non-empty fact id is
\* relayed to onWidgetAction at most once, and exactly once as soon as it has
\* been delivered; right after a thread-change signal the processed-fact set
\* is empty.
C1_RelayOncePerThread ==
    /\ \A j, k \in DOMAIN relayLog :
          (relayLog[j].factId = relayLog[k].factId
              /\ relayLog[j].thread = relayLog[k].thread) => j = k
    /\ \A k \in DOMAIN relayLog : relayLog[k].factId # ""
    /\ LastFactId # "" => RelayCount(LastFactId, thread) = 1
    /\ last.op = "onThreadChange" => processedFacts = {}

\* C1 witness: f1 is delivered again after it was relayed in thread 0 and,
\* after a thread change, relayed once more in thread 1.
C1_Witness ==
    /\ LastFactId = "f1"
    /\ last.ret.callbacks = <<>>
    /\ thread = 1
    /\ RelayCount("f1", 0) = 1
    /\ RelayCount("f1", 1) = 1

\* The claim's precondition on the workflow identifier.
EmptyOrPlaceholder(id) == id = "" \/ StartsWith(id, "wf_replace")

\* C2: with an empty or wf_replace... workflow identifier no request is ever
\* issued, the mount effect leaves the session error at the configuration
\* message with the loading flag cleared, and every getClientSecret
\* invocation rejects with that message.
C2_UnconfiguredNoRequest ==
    EmptyOrPlaceholder(WORKFLOW_ID) =>
        /\ fetchCount = 0
        /\ \A p \in DOMAIN inFlight : inFlight[p] = 0
        /\ last.op = "mount" =>
              errors.session = Some(ConfigMessage) /\ ~isInitializingSession
        /\ last.op = "getClientSecret" => last.ret = Rejected(ConfigMessage)

\* C2 witness: a second invocation on a placeholder workflow has just rejected.
C2_Witness ==
    /\ WORKFLOW_ID = "wf_replace_me"
    /\ last.op = "getClientSecret"
    /\ last.ret = Rejected(ConfigMessage)
    /\ invocations = 2
    /\ errors.session = Some(ConfigMessage)

\* What C3 and its amendment conclude.
ScriptErrorActive ==
    scriptStatus = "error" /\ errors.script # None /\ ~isInitializingSession

\* C3 as stated: whenever the 5 s timer fires and no script-loaded signal was
\* handled before, the script status is error, the script error is set and
\* the loading flag is cleared.
C3_Original ==
    (last.op = "timeout" /\ ~loadSignalSeen) => ScriptErrorActive

\* C3 amended: the same, provided the custom element is still unregistered
\* when the timer fires.
C3_TimeoutWhileUnregistered ==
    (last.op = "timeout" /\ ~loadSignalSeen /\ ~registered) => ScriptErrorActive

\* C3 witness: the timer has fired on an unregistered element of a configured
\* panel, and the synthesized error is in place.
C3_Witness ==
    /\ last.op = "timeout"
    /\ ~loadSignalSeen
    /\ ~registered
    /\ isWorkflowConfigured
    /\ errors.script = Some("Error: " \o TimeoutDetail)
    /\ ScriptErrorActive

\* C4: the overlay's error is the script error if one is set, otherwise the
\* session error if one is set, otherwise the integration error.
C4_ErrorPriority ==
    blockingError =
        IF errors.script # None THEN errors.script
        ELSE IF errors.session # None THEN errors.session
        ELSE errors.integration

\* C4 witness: a script error and a different session error are both set.
C4_Witness ==
    /\ errors.script # None
    /\ errors.session # None
    /\ errors.session # errors.script
    /\ blockingError = errors.script

\* The last step completed a getClientSecret call on an HTTP response.
LastHttp == last.op = "getClientSecretDone" /\ last.arg.response.kind = "http"
LastResponse == last.arg.response
\* The JSON value of the last response's body when its text is JSON.
LastJson == LastResponse.raw.value
LastIsJson == LastHttp /\ LastResponse.raw.kind = "json"

\* The message C5 names for a body: the top-level error string, else
\* error.message, else details.error as a string, else details.error.message.
C5_HasShape(b) ==
    \/ IsString(Get(b, "error"))
    \/ IsString(Get(Get(b, "error"), "message"))
    \/ IsString(Get(Get(b, "details"), "error"))
    \/ IsString(Get(Get(Get(b, "details"), "error"), "message"))
C5_Message(b) ==
    IF IsString(Get(b, "error")) THEN Get(b, "error").v
    ELSE IF IsString(Get(Get(b, "error"), "message"))
         THEN Get(Get(b, "error"), "message").v
    ELSE IF IsString(Get(Get(b, "details"), "error"))
         THEN Get(Get(b, "details"), "error").v
    ELSE Get(Get(Get(b, "details"), "error"), "message").v

\* C5: on a non-success status getClientSecret rejects with the message of
\* the body: error as a string, else error.message, else details.error as a
\* string, else details.error.message.
C5_NonOkMessage ==
    (LastIsJson /\ ~LastResponse.ok /\ C5_HasShape(LastJson)) =>
        last.ret = Rejected(C5_Message(LastJson))

\* C5 witness: {"error":{"message":"quota exceeded"},"details":{"error":"bad
\* workflow"}} on a non-success status has failed with "quota exceeded".
C5_Witness ==
    /\ LastIsJson
    /\ ~LastResponse.ok
    /\ LastJson = JObj([error |-> JObj([message |-> JStr("quota exceeded")]),
                        details |-> JObj([error |-> JStr("bad workflow")])])
    /\ last.ret = Rejected("quota exceeded")

\* The body carries client_secret as a non-empty string.
HasSecretString(b) ==
    IsString(Get(b, "client_secret")) /\ Get(b, "client_secret").v # ""

\* C6: on a success status with client_secret a non-empty string s the call
\* resolves to s, and in a mounted panel the session and integration errors
\* are null afterwards.
C6_ResolvesToSecret ==
    (LastIsJson /\ LastResponse.ok /\ HasSecretString(LastJson)) =>
        /\ last.ret = Resolved(Get(LastJson, "client_secret"))
        /\ isMountedRef => (errors.session = None /\ errors.integration = None)

\* C6 witness: the second of two calls has resolved to "sk_abc" in a mounted
\* panel (the first may have failed meanwhile).
C6_Witness ==
    /\ LastIsJson
    /\ LastResponse.ok
    /\ last.ret = Resolved(JStr("sk_abc"))
    /\ isMountedRef
    /\ invocations = 2
    /\ \A p \in DOMAIN inFlight : inFlight[p] = 0

\* The response has no client_secret, or an empty one.
NoSecret(r) ==
    \/ r.raw.kind # "json"
    \/ Get(r.raw.value, "client_secret") \in {JUndef, JStr("")}

\* C7 as stated: on a success status without a non-empty client_secret the
\* call rejects with "Missing client secret in response" and the session
\* error is that message.
C7_Original ==
    (LastHttp /\ LastResponse.ok /\ NoSecret(LastResponse)) =>
        /\ last.ret = Rejected("Missing client secret in response")
        /\ errors.session = Some("Missing client secret in response")

\* C7 amended: the call rejects with the fixed message, and the session error
\* is set to it while the panel is mounted.
C7_MissingSecret ==
    (LastHttp /\ LastResponse.ok /\ NoSecret(LastResponse)) =>
        /\ last.ret = Rejected("Missing client secret in response")
        /\ isMountedRef => errors.session = Some("Missing client secret in response")

\* C7 witness: a success response with body {} has failed in a mounted panel.
C7_Witness ==
    /\ LastIsJson
    /\ LastResponse.ok
    /\ LastJson = JObj(EmptyFields)
    /\ isMountedRef
    /\ errors.session = Some(MissingSecretMessage)

\* C8 as stated: a malformed body makes the call fail with the fixed
\* missing-credential message, whatever the HTTP status.
C8_Original ==
    (LastHttp /\ LastResponse.raw.kind = "malformed") =>
        last.ret = Rejected("Missing client secret in response")

\* C8 amended: a malformed body makes the call fail with the
\* missing-credential message on a success status and with the response's
\* status text on a non-success status.
C8_MalformedBody ==
    (LastHttp /\ LastResponse.raw.kind = "malformed") =>
        last.ret = Rejected(IF LastResponse.ok
                            THEN "Missing client secret in response"
                            ELSE LastResponse.statusText)

\* C8 witness: a malformed body on a success status has failed with the
\* missing-credential message.
C8_Witness ==
    /\ LastHttp
    /\ LastResponse.raw.kind = "malformed"
    /\ LastResponse.ok
    /\ last.ret = Rejected(MissingSecretMessage)

\* C9 as stated: once ready, the script status stays ready over every step
\* other than handleResetChat.
C9_Original ==
    [][(scriptStatus = "ready" /\ last'.op # "handleResetChat")
          => scriptStatus' = "ready"]_vars

\* C9 amended: the script status leaves ready only when handleError runs in
\* the mounted panel (a script-error event, or the timer firing before the
\* script effect has cancelled it) and makes it error, or when
\* handleResetChat runs with the element unregistered and makes it pending.
C9_ReadyUntilErrorOrReset ==
    [][(scriptStatus = "ready" /\ scriptStatus' # "ready") =>
          \/ last'.op \in {"scriptError", "timeout"} /\ scriptStatus' = "error"
          \/ last'.op = "handleResetChat" /\ ~registered /\ scriptStatus' = "pending"]_vars

\* C9 witness: the status was ready, and a later script-loaded event and a
\* later session failure have left it ready.
C9_Witness ==
    /\ scriptStatus = "ready"
    /\ effectScriptStatus = "ready"
    /\ loadSignalSeen
    /\ last.op = "getClientSecretDone"
    /\ last.ret.kind = "rejected"

\* C10 as stated: a script, session or integration error that is set stays
\* set over every step other than handleResetChat.
C10_Original ==
    [][last'.op # "handleResetChat" =>
          /\ errors.script # None => errors'.script # None
          /\ errors.session # None => errors'.session # None
          /\ errors.integration # None => errors'.integration # None]_vars

\* C10 amended: a script error is cleared only by handleLoaded (a
\* script-loaded event, or the script effect finding the element registered)
\* or handleResetChat; a session error only by a later getClientSecret
\* invocation (when it starts, or when it succeeds) or handleResetChat.
C10_ErrorsClearedOnlyBy ==
    [][/\ (errors.script # None /\ errors'.script = None) =>
             last'.op \in {"scriptLoaded", "scriptEffect", "handleResetChat"}
       /\ (errors.session # None /\ errors'.session = None) =>
             last'.op \in {"getClientSecret", "getClientSecretDone", "handleResetChat"}]_vars

\* C10 witness: a script error and a session error are set and have just
\* survived a response start.
C10_Witness ==
    /\ errors.script # None
    /\ errors.session # None
    /\ isWorkflowConfigured
    /\ last.op = "onResponseStart"

\* Error records to evaluate the rendering on, the retryable ones included.
C11_Messages == {None, Some(""), Some("boom")}
C11_ErrorRecords ==
    [script : C11_Messages, session : C11_Messages, integration : C11_Messages,
     retryable : BOOLEAN]

\* The overlay has an error to show: the first of script, session and
\* integration error that is set, and it is not the empty text.
C11_BlockingPresent(e) ==
    LET first == IF e.script # None THEN e.script
                 ELSE IF e.session # None THEN e.session
                 ELSE e.integration
    IN  first # None /\ first # Some("")

\* C11: the overlay is handed a retry handler exactly when a blocking error
\* is present and the retryable flag is true (for the panel's error record
\* and for every error record), and no step of the panel turns the retryable
\* flag from false to true.
C11_RetryOnlyWhenRetryable ==
    /\ [](/\ onRetryOffered <=> (C11_BlockingPresent(errors) /\ errors.retryable)
          /\ \A e \in C11_ErrorRecords :
                onRetryFor(e) <=> (C11_BlockingPresent(e) /\ e.retryable))
    /\ [][~errors.retryable => ~errors'.retryable]_vars

\* C11 witness: a failed session request has left a blocking error with the
\* retryable flag false after a reset, and no retry handler is offered.
C11_Witness ==
    /\ last.op = "getClientSecretDone"
    /\ last.ret.kind = "rejected"
    /\ widgetInstanceKey = 1
    /\ Truthy(blockingError)
    /\ ~errors.retryable
    /\ ~onRetryOffered

\* C12: every handleResetChat step leaves the three error fields null and
\* retryable false, the processed-fact set empty, the loading flag true, the
\* widget instance key one higher than before, and the script status ready
\* if the custom element is registered and pending otherwise.
C12_ResetPostcondition ==
    [][last'.op = "handleResetChat" =>
          /\ errors'.script = None
          /\ errors'.session = None
          /\ errors'.integration = None
          /\ errors'.retryable = FALSE
          /\ processedFacts' = {}
          /\ isInitializingSession' = TRUE
          /\ widgetInstanceKey' = widgetInstanceKey + 1
          /\ scriptStatus' = IF registered' THEN "ready" ELSE "pending"]_vars

\* C12 witness: a reset has run on an unconfigured panel whose script had
\* failed (the script effect last ran for status error) and which had relayed
\* a fact; the element is still unregistered and the status is pending again.
C12_Witness ==
    /\ last.op = "handleResetChat"
    /\ ~isWorkflowConfigured
    /\ effectScriptStatus = "error"
    /\ relayLog # <<>>
    /\ ~registered
    /\ scriptStatus = "pending"
    /\ errors = createInitialErrors
    /\ isInitializingSession
    /\ widgetInstanceKey = 1

\* The step completes a request that was started under an earlier widget
\* instance key, that is, one that was in flight when handleResetChat ran.
C13_StaleCompletion ==
    /\ last'.op = "getClientSecretDone"
    /\ \E p \in DOMAIN inFlight :
          p[2] < widgetInstanceKey /\ inFlight'[p] < inFlight[p]

C15_Invoked(name) == last.op = "onClientTool" /\ last.arg.name = name
C15_Theme == Get(last.arg.params, "theme")

\* C15: every client-tool invocation returns a {success} acknowledgment:
\* switch_theme with theme light or dark calls onThemeRequest once with that
\* value, and nothing else, and returns success true; switch_theme with any
\* other theme returns success false and calls nothing; record_fact returns
\* success true; any other name returns success false and calls nothing.
C15_ToolAcknowledgment ==
    last.op = "onClientTool" =>
        /\ last.ret.success \in BOOLEAN
        /\ (C15_Invoked("switch_theme") /\ C15_Theme \in {JStr("light"), JStr("dark")}) =>
              /\ last.ret.success = TRUE
              /\ last.ret.callbacks = <<[fn |-> "onThemeRequest", arg |-> C15_Theme.v]>>
        /\ (C15_Invoked("switch_theme") /\ C15_Theme \notin {JStr("light"), JStr("dark")}) =>
              /\ last.ret.success = FALSE
              /\ last.ret.callbacks = <<>>
        /\ C15_Invoked("record_fact") => last.ret.success = TRUE
        /\ last.arg.name \notin {"switch_theme", "record_fact"} =>
              /\ last.ret.success = FALSE
              /\ last.ret.callbacks = <<>>

\* C15 witness: switch_theme with theme dark has called onThemeRequest("dark")
\* and returned success true, after a fact was relayed.
C15_Witness ==
    /\ C15_Invoked("switch_theme")
    /\ C15_Theme = JStr("dark")
    /\ last.ret.success = TRUE
    /\ last.ret.callbacks = <<[fn |-> "onThemeRequest", arg |-> "dark"]>>
    /\ relayLog # <<>>

\* The prefix the README gives for workflow identifiers.
C16_ExpectedPrefix == "wf_"

\* C16 as stated: with a workflow identifier that does not start with wf_
\* the mount leaves a session error and no credential request is ever made.
C16_Original ==
    ~StartsWith(WORKFLOW_ID, C16_ExpectedPrefix) =>
        /\ fetchCount = 0
        /\ last.op = "mount" => errors.session # None

\* C16 amended: a workflow identifier is treated as unconfigured exactly when
\* it is empty or starts with wf_replace.  For any other identifier, one that
\* does not start with wf_ included, the mount sets no session error and a
\* getClientSecret invocation issues the request; for an empty or wf_replace
\* identifier the mount sets the session error and the invocation rejects
\* without a request.
C16_PlaceholderOnly ==
    LET unconfigured == WORKFLOW_ID = "" \/ StartsWith(WORKFLOW_ID, "wf_replace")
    IN  /\ last.op = "mount" => (errors.session # None <=> unconfigured)
        /\ last.op = "getClientSecret" =>
              /\ last.ret.kind = "rejected" <=> unconfigured
              /\ last.ret.kind = "pending" <=> ~unconfigured
              /\ unconfigured => fetchCount = 0
              /\ ~unconfigured => fetchCount = invocations /\ errors.session = None

\* C16 witness: with the identifier "abc" a getClientSecret invocation has
\* issued its request and no session error is set.
C16_Witness ==
    /\ WORKFLOW_ID = "abc"
    /\ ~StartsWith(WORKFLOW_ID, C16_ExpectedPrefix)
    /\ last.op = "getClientSecret"
    /\ last.ret.kind = "pending"
    /\ fetchCount = 1
    /\ errors.session = None

\* C17 as stated: when the widget's onError callback has fired the
\* integration error is set, and it is the error shown when no script error
\* and no session error is set.
C17_Original ==
    last.op = "onError" =>
        /\ errors.integration # None
        /\ (errors.script = None /\ errors.session = None) =>
              blockingError = errors.integration /\ Truthy(blockingError)

\* C18: the steps of the script load (script-loaded event, script-error
\* event, timer, the script effect) never change the session or integration
\* error, and the steps of getClientSecret (start, immediate rejection,
\* success, failure) never change the script error or the script status.
C18_IndependentTracking ==
    [][/\ last'.op \in {"scriptLoaded", "scriptError", "timeout", "scriptEffect"} =>
             /\ errors'.session = errors.session
             /\ errors'.integration = errors.integration
       /\ last'.op \in {"getClientSecret", "getClientSecretDone"} =>
             /\ errors'.script = errors.script
             /\ scriptStatus' = scriptStatus]_vars

\* C18 witness: the timer has fired while a credential request was in flight
\* and a session error of an earlier request was set; both errors are set.
C18_Witness ==
    /\ last.op = "timeout"
    /\ errors.script = Some("Error: " \o TimeoutDetail)
    /\ errors.session = Some("Failed to fetch")
    /\ \E p \in DOMAIN inFlight : inFlight[p] > 0

\* The values C19's strategies look at, in the claim's order: payload.error,
\* payload.error.message, payload.details, payload.details.error,
\* payload.details.error.message, payload.message.
C19_Candidates(b) ==
    << Get(b, "error"),
       Get(Get(b, "error"), "message"),
       Get(b, "details"),
       Get(Get(b, "details"), "error"),
       Get(Get(Get(b, "details"), "error"), "message"),
       Get(b, "message") >>

\* The strategies that match: the positions holding a string.
C19_Matching(b) == {k \in DOMAIN C19_Candidates(b) : IsString(C19_Candidates(b)[k])}

\* The message of the earliest matching strategy, else the fallback.
C19_FirstMatch(b, fallback) ==
    IF C19_Matching(b) = {} THEN fallback
    ELSE LET k == CHOOSE i \in C19_Matching(b) : \A j \in C19_Matching(b) : i <= j
         IN  C19_Candidates(b)[k].v

\* The body a completed request's response parsed to ({} when the text is
\* empty or not JSON).
C19_Payload == IF LastResponse.raw.kind = "json" THEN LastJson ELSE JObj(EmptyFields)

\* C19: on a non-success status the call rejects with the message of the
\* earliest matching strategy among payload.error, payload.error.message,
\* payload.details, payload.details.error, payload.details.error.message and
\* payload.message (each as a string), and with the HTTP status text when
\* none matches.
C19_FirstStrategyWins ==
    (LastHttp /\ ~LastResponse.ok) =>
        last.ret = Rejected(C19_FirstMatch(C19_Payload, LastResponse.statusText))

\* C19 witness: {"details":{"error":"bad workflow"},"message":"payload
\* message"} matches two strategies and has failed with the earlier one's
\* message.
C19_Witness ==
    /\ LastIsJson
    /\ ~LastResponse.ok
    /\ Cardinality(C19_Matching(LastJson)) = 2
    /\ LastJson = JObj([details |-> JObj([error |-> JStr("bad workflow")]),
                        message |-> JStr("payload message")])
    /\ last.ret = Rejected("bad workflow")

\* The way a request that has just failed did fail.
C20_FailurePath ==
    IF last.arg.response.kind = "throw" THEN "network failure"
    ELSE IF ~last.arg.response.ok THEN "non-success status"
    ELSE "missing credential"

\* C20: when a request of a mounted panel has failed (the fetch rejected,
\* the status was not a success, or the credential was missing), the session
\* error is the message the call rejects with and retryable is false; when
\* the value thrown was not an Error that message is "Unable to start ChatKit
\* session.".
C20_FailureSetsSessionError ==
    (last.op = "getClientSecretDone" /\ last.ret.kind = "rejected") =>
        /\ isMountedRef =>
              errors.session = Some(last.ret.message) /\ errors.retryable = FALSE
        /\ (last.arg.response.kind = "throw" /\ ~last.arg.response.isError) =>
              last.ret.message = "Unable to start ChatKit session."

\* C20 witness: in a mounted panel the fetch has rejected with a value that
\* is not an Error, and the session error is the fixed text.
C20_Witness ==
    /\ last.op = "getClientSecretDone"
    /\ C20_FailurePath = "network failure"
    /\ ~last.arg.response.isError
    /\ isMountedRef
    /\ last.ret = Rejected(UnableMessage)
    /\ errors.session = Some(UnableMessage)

\* C21 as stated: once a script-loaded signal has been observed, the timer
\* never produces a script error.
C21_Original ==
    [][(loadSignalSeen /\ last'.op = "timeout") =>
          errors'.script = errors.script /\ scriptStatus' = scriptStatus]_vars

\* C21 amended: the script status leaves pending only through a load signal
\* (the event, or the script effect finding the element registered), a
\* script-error event or the timer; once a load signal has been observed and
\* the script effect has re-run for the new status, the timer is cancelled;
\* a timer that fires after a load signal changes something only if the
\* effect has not yet re-run and the element is unregistered; and whenever
\* the timer fires with the element unregistered, the status becomes error
\* and the script error is "Error: " followed by the fixed diagnostic.
C21_TimerCancelledByEffect ==
    /\ [][(scriptStatus = "pending" /\ scriptStatus' # "pending") =>
            last'.op \in {"mount", "scriptLoaded", "scriptEffect", "scriptError", "timeout"}]_vars
    /\ []((loadSignalSeen /\ effectScriptStatus = scriptStatus) => ~timeoutId)
    /\ [][(loadSignalSeen /\ last'.op = "timeout"
              /\ (errors'.script # errors.script \/ scriptStatus' # scriptStatus)) =>
            effectScriptStatus # scriptStatus /\ ~registered]_vars
    /\ [][(last'.op = "timeout" /\ ~registered) =>
            /\ scriptStatus' = "error"
            /\ errors'.script = Some("Error: ChatKit web component is unavailable. "
                                      \o "Verify that the script URL is reachable.")]_vars

\* C21 witness: the panel mounted with the element unregistered, the load
\* signal arrived, the script effect has re-run and the timer is cancelled
\* while the element is still unregistered; no script error is set.
C21_Witness ==
    /\ loadSignalSeen
    /\ ~registered
    /\ scriptStatus = "ready"
    /\ effectScriptStatus = "ready"
    /\ ~timeoutId
    /\ last.op = "scriptEffect"
    /\ errors.script = None

\* C22: in a mounted panel with a configured workflow, a getClientSecret
\* invocation without a current secret sets the loading flag when it starts
\* and clears it when it completes, resolved or rejected; an invocation with
\* a current secret changes the loading flag neither when it starts nor when
\* it completes.
C22_LoadingFlag ==
    [][/\ (last'.op = "getClientSecret" /\ isWorkflowConfigured /\ isMountedRef') =>
             IF last'.arg = None
             THEN isInitializingSession' = TRUE
             ELSE isInitializingSession' = isInitializingSession
       /\ (last'.op = "getClientSecretDone" /\ isMountedRef') =>
             IF last'.arg.currentSecret = None
             THEN isInitializingSession' = FALSE
             ELSE isInitializingSession' = isInitializingSession]_vars

\* C22 witness: a refresh has failed while a first-time request is still in
\* flight, and the loading flag is still set.
C22_Witness ==
    /\ last.op = "getClientSecretDone"
    /\ last.arg.currentSecret = Some("sk_old")
    /\ last.ret.kind = "rejected"
    /\ isMountedRef
    /\ inFlight[<<None, 0>>] = 1
    /\ isInitializingSession

\* A blocking error is there to show: the first of the script, session and
\* integration errors that is set, and it is not the empty text.
C23_BlockingError ==
    \/ errors.script \notin {None, Some("")}
    \/ errors.script = None /\ errors.session \notin {None, Some("")}
    \/ errors.script = None /\ errors.session = None
          /\ errors.integration \notin {None, Some("")}

\* C23: the widget is interactive only when there is no blocking error and
\* the loading flag is false, and so is the Ready/Online status; the loading
\* overlay is shown only when the loading flag is true and there is no
\* blocking error; the widget is never interactive while the loading overlay
\* is shown.
C23_RenderingConsistent ==
    /\ widgetInteractive => (~C23_BlockingError /\ ~isInitializingSession)
    /\ statusReady => (~C23_BlockingError /\ ~isInitializingSession)
    /\ loadingOverlayShown => (isInitializingSession /\ ~C23_BlockingError)
    /\ ~(widgetInteractive /\ loadingOverlayShown)

\* C23 witness: after a successful first-time request, with a refresh still
\* in flight, the widget is interactive, the status reads Ready and the
\* loading overlay is not shown.
C23_Witness ==
    /\ last.op = "getClientSecretDone"
    /\ last.ret.kind = "resolved"
    /\ inFlight[<<Some("sk_old"), 0>>] = 1
    /\ widgetInteractive
    /\ statusReady
    /\ ~loadingOverlayShown

\* C24: in every state reached through the panel's transitions, reset
\* included, the retryable flag is false and the error overlay gets no retry
\* handler.
C24_NeverRetryable ==
    errors.retryable = FALSE /\ ~onRetryOffered

\* C24 witness: after a reset a script-error event has set a blocking error
\* while a session error is set too; the flag is false and no retry handler
\* is offered.
C24_Witness ==
    /\ widgetInstanceKey = 1
    /\ last.op = "scriptError"
    /\ errors.script # None
    /\ errors.session # None
    /\ Truthy(blockingError)
    /\ errors.retryable = FALSE
    /\ ~onRetryOffered

\* C25: once the unmount cleanup has run the mounted flag stays false and the
\* timer is cleared; from then on no step (a script event, the timer, the
\* completion of a request in flight) changes the script status, the error
\* record or the loading flag; and a request completing then still resolves
\* to the credential or rejects with the failure's message.
C25_InertAfterUnmount ==
    /\ []((phase = "unmounted") => (~isMountedRef /\ ~timeoutId))
    /\ [][~isMountedRef =>
            /\ ~isMountedRef'
            /\ scriptStatus' = scriptStatus
            /\ errors' = errors
            /\ isInitializingSession' = isInitializingSession]_vars
    /\ []((last.op = "getClientSecretDone" /\ ~isMountedRef) =>
            /\ last.ret.kind \in {"resolved", "rejected"}
            /\ last.arg.response.kind = "throw" =>
                  last.ret = Rejected(last.arg.response.message)
            /\ (LastIsJson /\ LastResponse.ok /\ HasSecretString(LastJson)) =>
                  last.ret = Resolved(Get(LastJson, "client_secret")))

\* C25 witness: a first-time request started before the unmount has failed
\* after it; the call rejected, and the loading flag and the error record
\* are as the unmount left them.
C25_Witness ==
    /\ phase = "unmounted"
    /\ last.op = "getClientSecretDone"
    /\ last.arg.currentSecret = None
    /\ last.ret = Rejected("Failed to fetch")
    /\ errors.session = None
    /\ isInitializingSession

\* The step is a record_fact invocation, and the fact_id it carries.
C26_RecordFactStep == last'.op = "onClientTool" /\ last'.arg.name = "record_fact"
C26_FactId ==
    LET id == Get(last'.arg.params, "fact_id")
    IN  IF id = JUndef THEN "" ELSE id.v

\* C26: a record_fact invocation whose fact_id is missing or empty, or is
\* already in the processed-fact set, calls no callback (nothing is relayed
\* to onWidgetAction), leaves the processed-fact set as it was, and returns
\* success true.
C26_SkippedFacts ==
    [][(C26_RecordFactStep /\ (C26_FactId = "" \/ C26_FactId \in processedFacts)) =>
          /\ last'.ret.callbacks = <<>>
          /\ relayLog' = relayLog
          /\ processedFacts' = processedFacts
          /\ last'.ret.success = TRUE]_vars

\* C26 witness: a record_fact invocation without a fact_id has returned
\* success true with nothing relayed, the processed-fact set still {f1}.
C26_Witness ==
    /\ last.op = "onClientTool"
    /\ last.arg = [name |-> "record_fact", params |-> JObj([fact_text |-> JStr("x")])]
    /\ last.ret = [success |-> TRUE, callbacks |-> <<>>]
    /\ processedFacts = {"f1"}
    /\ Len(relayLog) = 1

\* C27 as stated: when a getClientSecret invocation has failed in a mounted
\* panel, whatever the response body and status text, the widget is not
\* interactive and the status does not read Ready/Online.
C27_Original ==
    (last.op = "getClientSecretDone" /\ last.ret.kind = "rejected" /\ isMountedRef) =>
        ~widgetInteractive /\ ~statusReady

\* A first-time request (no current secret) is in flight.
C28_FirstTimeInFlight == \E k \in WidgetKeys : inFlight[<<None, k>>] > 0

\* C28 as stated: in a mounted panel, while a first-time credential request
\* is in flight, the loading flag is true or an error is set.
C28_Original ==
    (phase = "mounted" /\ C28_FirstTimeInFlight) =>
        (isInitializingSession \/ blockingError # None)

====
